---- MODULE Spec2Model ----
(***************************************************************************)
(* Model of the D780 microservices (src/D780-Task2.py): the inventory      *)
(* service (STOCK and InventoryHandler), the payment service               *)
(* (PaymentHandler) and the orchestrator's checkout saga                   *)
(* (OrchestratorHandler.do_POST with _http_get / _http_post).              *)
(*                                                                         *)
(* Every service is a ThreadingHTTPServer: each request runs on its own    *)
(* thread and no handler takes a lock, so the handler threads interleave   *)
(* between the read of STOCK, the comparison and the write.                *)
(*                                                                         *)
(* The in-process components of src/D780-Task1.py, CartRepository and      *)
(* InventoryService, are modelled beside them, each called by one thread.  *)
(***************************************************************************)
EXTENDS Integers, Sequences, FiniteSets, TLC

VARIABLES
    STOCK,   \* the inventory service's dict { item: int } (a partial function)
    inv,     \* per caller: the inventory request it has in flight and the handler thread's position
    hist,    \* history of the inventory service: what was answered, per item
    pay,     \* per checkout: the payment request it has in flight
    ck,      \* per checkout: the orchestrator's handler thread (OrchestratorHandler.do_POST)
    _store,    \* CartRepository._store: cart id -> the cart's items
    cartCall,  \* the last call made to the cart repository, and what it returned
    _stock,    \* InventoryRepository._stock: item -> quantity
    stockCall  \* the last call made to the InventoryService

task2vars == <<STOCK, inv, hist, pay, ck>>
task1vars == <<_store, cartCall, _stock, stockCall>>
vars == <<STOCK, inv, hist, pay, ck, _store, cartCall, _stock, stockCall>>

----------------------------------------------------------------------------
(* Bounds and input sets *)

MaxDirect == 3
MaxStock == 2
MaxCartItems == 2
MaxMergedItems == 4
MaxLevel == 3
MaxQuantity == 2

Items == {"widget", "gadget"}
Directs == {"d1", "d2"}
Checkouts == {"k1", "k2"}
Callers == Directs \cup Checkouts

----------------------------------------------------------------------------
(* JSON values of a request body, and Python's conversions of them *)

Missing == [t |-> "missing", v |-> 0]
Null == [t |-> "null", v |-> 0]
IntV(n) == [t |-> "int", v |-> n]
NumStr(n) == [t |-> "numstr", v |-> n]
BadStr == [t |-> "badstr", v |-> 0]

\* int(data.get("quantity", 0)): a missing key is the default 0, a number or a
\* numeric string is its value, None and a non-numeric string raise.
py_int_quantity(raw) ==
    CASE raw.t = "missing" -> [ok |-> TRUE, v |-> 0]
      [] raw.t = "int" -> [ok |-> TRUE, v |-> raw.v]
      [] raw.t = "numstr" -> [ok |-> TRUE, v |-> raw.v]
      [] OTHER -> [ok |-> FALSE, v |-> 0]

\* float(amount): a number or a numeric string is its value; None (also a missing
\* key, data.get("amount")) and a non-numeric string raise.
py_float(raw) ==
    CASE raw.t = "int" -> [ok |-> TRUE, v |-> raw.v]
      [] raw.t = "numstr" -> [ok |-> TRUE, v |-> raw.v]
      [] OTHER -> [ok |-> FALSE, v |-> 0]

\* _amount_str(a): the decimal text of an integral amount, given by its number.
_amount_str(raw) == IF py_float(raw).ok THEN py_float(raw).v ELSE 0

\* _pretty_method(m): "Unknown" for what is not a string (None, a number); a
\* string with "_" replaced by " " and title-cased: BadStr, the string "abc", is
\* "Abc" and the decimal text of a number is itself.
_pretty_method(m) ==
    CASE m.t = "badstr" -> "Abc"
      [] m.t = "numstr" -> ToString(m.v)
      [] OTHER -> "Unknown"

\* f"Processed {_amount_str(amount)} via {_pretty_method(method)}.": the text
\* around the amount
Processed(method) == "Processed via " \o _pretty_method(method)

----------------------------------------------------------------------------
(* Responses: _send(handler, status, payload) *)

Resp(code, tag, val) == [code |-> code, tag |-> tag, val |-> val]
NoResp == Resp(0, "none", 0)

----------------------------------------------------------------------------
(* The inventory service *)

\* STOCK = {} (line 84)
EmptyStock == [i \in {} |-> 0]

\* STOCK.get(item, 0)
StockGet(S, item) == IF item \in DOMAIN S THEN S[item] ELSE 0

\* STOCK[item] = v
StockSet(S, item, v) == [j \in (DOMAIN S) \cup {item} |-> IF j = item THEN v ELSE S[j]]

Idle == [st |-> "idle", verb |-> "", action |-> "", item |-> "", q |-> Missing,
         qty |-> 0, current |-> 0, resp |-> NoResp]

NewRequest(verb, action, item, q) ==
    [st |-> "sent", verb |-> verb, action |-> action, item |-> item, q |-> q,
     qty |-> 0, current |-> 0, resp |-> NoResp]

\* The response is sent; a direct client reads it at once and its slot is free again.
Reply(c, resp) == IF c \in Directs THEN Idle ELSE [Idle EXCEPT !.st = "done", !.resp = resp]

\* An exception escapes the handler: the thread ends and no response is sent.
Raise(c) == IF c \in Directs THEN Idle ELSE [Idle EXCEPT !.st = "raised"]

\* _send to a direct client: the history keeps the last response sent to one.
Sent(c, resp) == IF c \in Directs THEN [hist EXCEPT !.last = resp] ELSE hist

\* A reserve or release of the item holds a value of STOCK it has read and not yet
\* answered for.
InFlight(item) == \E c \in Callers : inv[c].st \in {"read", "wrote"} /\ inv[c].item = item

\* A checkout is between its validation and its end
Active(k) == ck[k].pc \notin {"idle", "done", "raised"}

\* STOCK is written for caller c: every other checkout that is under way has seen
\* a concurrent request change the stock.
Interfered(c) ==
    [k \in Checkouts |-> IF k # c /\ Active(k) THEN [ck[k] EXCEPT !.interf = TRUE] ELSE ck[k]]

\* Line 124 has run for caller c: STOCK[item] = current - qty. A checkout's own
\* reserve has taken qty from the stock; the other checkouts see the write.
Decremented(c, qty) ==
    [k \in Checkouts |-> IF k = c THEN [ck[k] EXCEPT !.took = @ + qty] ELSE Interfered(c)[k]]

\* InventoryHandler.do_GET, /inventory/{item}
Inventory_do_GET(c) ==
    /\ inv[c].st = "sent" /\ inv[c].verb = "GET"
    /\ LET resp == Resp(200, "stock", StockGet(STOCK, inv[c].item))
       IN /\ inv' = [inv EXCEPT ![c] = Reply(c, resp)]
          /\ hist' = Sent(c, resp)
    /\ UNCHANGED <<STOCK, pay, ck>>
    /\ UNCHANGED task1vars

\* A slip in the test: -1 passes
PutRejectedOffByOne(qty) == qty < -1

\* do_PUT's test (line 105): the quantity is rejected
PutRejected(qty) == qty < 0

\* InventoryHandler.do_PUT
Inventory_do_PUT(c) ==
    /\ inv[c].st = "sent" /\ inv[c].verb = "PUT"
    /\ LET r == inv[c]
           p == py_int_quantity(r.q)
       IN IF ~p.ok
          THEN /\ inv' = [inv EXCEPT ![c] = Raise(c)]
               /\ UNCHANGED <<STOCK, hist, ck>>
          ELSE IF PutRejected(p.v)
          THEN /\ inv' = [inv EXCEPT ![c] = Reply(c,
                                                  Resp(400, "quantity must be >= 0", 0))]
               /\ hist' = Sent(c, Resp(400, "quantity must be >= 0", 0))
               /\ UNCHANGED <<STOCK, ck>>
          ELSE /\ STOCK' = StockSet(STOCK, r.item, p.v)
               /\ inv' = [inv EXCEPT ![c] = Reply(c,
                                                  Resp(200, "stock updated", 0))]
               /\ hist' = [Sent(c, Resp(200, "stock updated", 0))
                               EXCEPT !.base[r.item] = p.v,
                                       !.granted[r.item] = 0,
                                       !.released[r.item] = 0,
                                       !.clean[r.item] = ~InFlight(r.item)]
               /\ ck' = Interfered(c)
    /\ UNCHANGED pay
    /\ UNCHANGED task1vars

\* InventoryHandler.do_POST up to the read of STOCK (lines 112-120)
Inventory_do_POST_read(c) ==
    /\ inv[c].st = "sent" /\ inv[c].verb = "POST"
    /\ LET r == inv[c]
           p == py_int_quantity(r.q)
       IN /\ inv' = [inv EXCEPT ![c] =
                    IF ~p.ok THEN Raise(c)
                    ELSE IF p.v <= 0
                    THEN Reply(c, Resp(400, "quantity must be > 0", 0))
                    ELSE [r EXCEPT !.st = "read", !.qty = p.v,
                                   !.current = StockGet(STOCK, r.item)]]
          /\ hist' = IF p.ok /\ p.v <= 0
                     THEN Sent(c, Resp(400, "quantity must be > 0", 0))
                     ELSE hist
    /\ UNCHANGED <<STOCK, pay, ck>>
    /\ UNCHANGED task1vars

\* A slip in the test: one unit more than the stock passes
ReserveRejectedOffByOne(current, qty) == current < qty - 1

\* The reserve branch's test (line 122): the reservation is rejected
ReserveRejected(current, qty) == current < qty

\* InventoryHandler.do_POST from the comparison to the write (lines 121-124, 126-127, 129)
Inventory_do_POST_write(c) ==
    /\ inv[c].st = "read"
    /\ LET r == inv[c]
       IN CASE r.action = "reserve" ->
                 IF ReserveRejected(r.current, r.qty)
                 THEN /\ inv' = [inv EXCEPT ![c] =
                                   Reply(c, Resp(409, "insufficient_stock", r.current))]
                      /\ hist' = Sent(c, Resp(409, "insufficient_stock", r.current))
                      /\ UNCHANGED <<STOCK, ck>>
                 ELSE /\ STOCK' = StockSet(STOCK, r.item, r.current - r.qty)
                      /\ inv' = [inv EXCEPT ![c].st = "wrote"]
                      /\ ck' = Decremented(c, r.qty)
                      /\ UNCHANGED hist
            [] r.action = "release" ->
                 /\ STOCK' = StockSet(STOCK, r.item, r.current + r.qty)
                 /\ inv' = [inv EXCEPT ![c].st = "wrote"]
                 /\ ck' = Interfered(c)
                 /\ hist' = [hist EXCEPT !.released[r.item] = @ + r.qty]
            [] OTHER ->
                 /\ inv' = [inv EXCEPT ![c] = Reply(c, Resp(404, "not found", 0))]
                 /\ hist' = Sent(c, Resp(404, "not found", 0))
                 /\ UNCHANGED <<STOCK, ck>>
    /\ UNCHANGED pay
    /\ UNCHANGED task1vars

\* InventoryHandler.do_POST, the 200 response, which reads STOCK[item] again (lines 125, 128)
Inventory_do_POST_reply(c) ==
    /\ inv[c].st = "wrote"
    /\ LET r == inv[c]
           resp == Resp(200, IF r.action = "reserve" THEN "reserved" ELSE "released",
                        STOCK[r.item])
       IN /\ inv' = [inv EXCEPT ![c] = Reply(c, resp)]
          /\ hist' = IF r.action = "reserve"
                     THEN [Sent(c, resp) EXCEPT !.granted[r.item] = @ + r.qty]
                     ELSE Sent(c, resp)
    /\ UNCHANGED <<STOCK, pay, ck>>
    /\ UNCHANGED task1vars

----------------------------------------------------------------------------
(* Clients that call the inventory service directly *)

DirectRequests ==
    {<<"GET", "", Missing>>, <<"POST", "cancel", IntV(1)>>}
    \cup {<<"PUT", "", q>> : q \in {Null, BadStr, IntV(-1), IntV(0), IntV(1), IntV(2)}}
    \cup {<<"POST", a, q>> : a \in {"reserve", "release"},
                             q \in {BadStr, IntV(0), IntV(1), IntV(2)}}

DirectRequest(d) ==
    /\ hist.n < MaxDirect
    /\ inv[d].st = "idle"
    /\ \E rq \in DirectRequests, item \in Items :
          inv' = [inv EXCEPT ![d] = NewRequest(rq[1], rq[2], item, rq[3])]
    /\ hist' = [hist EXCEPT !.n = @ + 1]
    /\ UNCHANGED <<STOCK, pay, ck>>
    /\ UNCHANGED task1vars

----------------------------------------------------------------------------
(* The payment service *)

PayIdle == [st |-> "idle", method |-> Missing, amount |-> Missing, resp |-> NoResp,
            charged |-> FALSE]

\* A payment service that refuses a method that is not a string
Payment_do_POST_StrictMethod(k) ==
    /\ pay[k].st = "sent"
    /\ LET f == py_float(pay[k].amount)
       IN pay' = [pay EXCEPT ![k] =
                    IF ~f.ok
                    THEN [@ EXCEPT !.st = "done", !.resp = Resp(400, "amount must be numeric", 0)]
                    ELSE IF f.v <= 0
                    THEN [@ EXCEPT !.st = "done", !.resp = Resp(400, "amount must be > 0", 0)]
                    ELSE IF _pretty_method(pay[k].method) = "Unknown"
                    THEN [@ EXCEPT !.st = "done", !.resp = Resp(400, "unknown method", 0)]
                    ELSE [@ EXCEPT !.st = "done", !.charged = TRUE,
                                   !.resp = Resp(200, Processed(pay[k].method),
                                                 _amount_str(pay[k].amount))]]
    /\ UNCHANGED <<STOCK, inv, hist, ck>>
    /\ UNCHANGED task1vars

\* PaymentHandler.do_POST, /pay
Payment_do_POST(k) ==
    /\ pay[k].st = "sent"
    /\ LET f == py_float(pay[k].amount)
       IN pay' = [pay EXCEPT ![k] =
                    IF ~f.ok
                    THEN [@ EXCEPT !.st = "done", !.resp = Resp(400, "amount must be numeric", 0)]
                    ELSE IF f.v <= 0
                    THEN [@ EXCEPT !.st = "done", !.resp = Resp(400, "amount must be > 0", 0)]
                    ELSE [@ EXCEPT !.st = "done", !.charged = TRUE,
                                   !.resp = Resp(200, Processed(pay[k].method),
                                                 _amount_str(pay[k].amount))]]
    /\ UNCHANGED <<STOCK, inv, hist, ck>>
    /\ UNCHANGED task1vars

----------------------------------------------------------------------------
(* The orchestrator: OrchestratorHandler.do_POST, /checkout *)

NoItem == [present |-> FALSE, s |-> ""]
ItemV(s) == [present |-> TRUE, s |-> s]

\* not item
Falsy(item) == ~item.present \/ item.s = ""

ItemInputs == {NoItem, ItemV("")} \cup {ItemV(i) : i \in Items}
QuantityInputs == {Missing, BadStr, IntV(0), NumStr(1), IntV(2)}
AmountInputs == {Missing, BadStr, IntV(0), IntV(30)}
MethodInputs == {Missing, BadStr, NumStr(1)}

\* The request bodies of /checkout: every item, quantity and amount; the bodies
\* that do not pass the validation carry no method.
CheckoutBodies ==
    LET valid(b) == /\ ~Falsy(b.item)
                    /\ py_int_quantity(b.q).ok /\ py_int_quantity(b.q).v > 0
                    /\ py_float(b.amount).ok /\ py_float(b.amount).v > 0
    IN {b \in [item : ItemInputs, q : QuantityInputs, amount : AmountInputs,
               method : MethodInputs] : valid(b) \/ b.method = Missing}

\* The handler thread of one checkout. rawitem, q, amount, method: the body's fields as
\* received; item, qty, amt: the handler's locals; seen: the stock the check read;
\* out: the response sent. History kept beside them: calls (the collaborator
\* calls issued, in order), rets (the codes they returned), before and after (STOCK
\* when the handler started and when it ended), interf (a request of another
\* caller wrote STOCK while this checkout was under way), took (the quantity this
\* checkout's reserve has subtracted from STOCK).
CkIdle == [pc |-> "idle", rawitem |-> NoItem, q |-> Missing, amount |-> Missing,
           method |-> Missing,
           item |-> "", qty |-> 0, amt |-> 0,
           calls |-> <<>>, rets |-> <<>>, seen |-> 0, out |-> NoResp,
           before |-> EmptyStock, after |-> EmptyStock, interf |-> FALSE, took |-> 0]

\* _send(self, status, payload) and return: the handler's one response
Finish(r, resp) == [r EXCEPT !.pc = "done", !.out = resp, !.after = STOCK]

\* An exception escapes do_POST: the thread ends, nothing is sent
Raised(r) == [r EXCEPT !.pc = "raised", !.after = STOCK]

\* A collaborator call is issued
Called(r, name) == [r EXCEPT !.calls = Append(@, name)]

\* Lines 202-215: the body is read and validated
Orchestrator_validate(k) ==
    /\ ck[k].pc = "idle"
    /\ \E b \in CheckoutBodies :
          LET item == b.item
              q == b.q
              amount == b.amount
              method == b.method
              p == py_int_quantity(q)
              f == py_float(amount)
              r == [ck[k] EXCEPT !.before = STOCK, !.rawitem = item, !.q = q,
                                 !.amount = amount, !.method = method]
          IN ck' = [ck EXCEPT ![k] =
                IF ~p.ok THEN Raised(r)
                ELSE IF Falsy(item) \/ p.v <= 0
                THEN Finish(r, Resp(400, "item and positive quantity required", 0))
                ELSE IF ~f.ok
                THEN Finish(r, Resp(400, "amount must be numeric", 0))
                ELSE IF f.v <= 0
                THEN Finish(r, Resp(400, "amount must be > 0", 0))
                ELSE [r EXCEPT !.pc = "check", !.item = item.s, !.qty = p.v, !.amt = f.v]]
    /\ UNCHANGED <<STOCK, inv, hist, pay>>
    /\ UNCHANGED task1vars

\* A slip in the stock check: one unit more than the stock passes
AfterGetOffByOne(r, code, stock) ==
    LET r1 == [r EXCEPT !.rets = Append(@, code)]
    IN IF code # 200 THEN Finish(r1, Resp(503, "inventory_unreachable", 0))
       ELSE IF stock < r.qty - 1
       THEN Finish([r1 EXCEPT !.seen = stock], Resp(409, "insufficient_stock", stock))
       ELSE [r1 EXCEPT !.pc = "reserve", !.seen = stock]

\* Lines 219-222: after _http_get returned (code, inv)
AfterGet(r, code, stock) ==
    LET r1 == [r EXCEPT !.rets = Append(@, code)]
    IN IF code # 200 THEN Finish(r1, Resp(503, "inventory_unreachable", 0))
       ELSE IF stock < r.qty
       THEN Finish([r1 EXCEPT !.seen = stock], Resp(409, "insufficient_stock", stock))
       ELSE [r1 EXCEPT !.pc = "reserve", !.seen = stock]

\* The reserve's result is not looked at
AfterReserveUnchecked(r, code) == [r EXCEPT !.rets = Append(@, code), !.pc = "pay"]

\* Lines 227-228: after the reserve's _http_post returned
AfterReserve(r, code) ==
    LET r1 == [r EXCEPT !.rets = Append(@, code)]
    IN IF code # 200 THEN Finish(r1, Resp(409, "inventory_reserve_failed", 0))
       ELSE [r1 EXCEPT !.pc = "pay"]

\* The test of the payment's result is inverted
AfterPayInverted(r, code) ==
    LET r1 == [r EXCEPT !.rets = Append(@, code)]
    IN IF code = 200 THEN [r1 EXCEPT !.pc = "release"]
       ELSE Finish(r1, Resp(200, Processed(r.method), _amount_str(r.amount)))

\* Lines 233, 238-239: after the payment's _http_post returned
AfterPay(r, code) ==
    LET r1 == [r EXCEPT !.rets = Append(@, code)]
    IN IF code # 200 THEN [r1 EXCEPT !.pc = "release"]
       ELSE Finish(r1, Resp(200, Processed(r.method), _amount_str(r.amount)))

\* Line 236: after the release's _http_post returned, whatever it returned
AfterRelease(r, code) ==
    Finish([r EXCEPT !.rets = Append(@, code)], Resp(402, "payment_failed", 0))

\* _http_get / _http_post: except URLError, return 503 unreachable
Unreachable == 503

\* Line 218: _http_get(/inventory/{item}): the request is sent, or the connection
\* fails (URLError) and the call returns 503 at once.
Orchestrator_call_get(k) ==
    /\ ck[k].pc = "check"
    /\ LET r == Called(ck[k], "GetStock")
       IN \/ /\ inv' = [inv EXCEPT ![k] = NewRequest("GET", "", r.item, Missing)]
             /\ ck' = [ck EXCEPT ![k] = [r EXCEPT !.pc = "wait_get"]]
          \/ /\ ck' = [ck EXCEPT ![k] = AfterGet(r, Unreachable, 0)]
             /\ UNCHANGED inv
    /\ UNCHANGED <<STOCK, hist, pay>>
    /\ UNCHANGED task1vars

Orchestrator_recv_get(k) ==
    /\ ck[k].pc = "wait_get" /\ inv[k].st = "done"
    /\ ck' = [ck EXCEPT ![k] = AfterGet(@, inv[k].resp.code, inv[k].resp.val)]
    /\ inv' = [inv EXCEPT ![k] = Idle]
    /\ UNCHANGED <<STOCK, hist, pay>>
    /\ UNCHANGED task1vars

\* Lines 225-226
Orchestrator_call_reserve(k) ==
    /\ ck[k].pc = "reserve"
    /\ LET r == Called(ck[k], "Reserve")
       IN \/ /\ inv' = [inv EXCEPT ![k] = NewRequest("POST", "reserve", r.item, IntV(r.qty))]
             /\ ck' = [ck EXCEPT ![k] = [r EXCEPT !.pc = "wait_reserve"]]
          \/ /\ ck' = [ck EXCEPT ![k] = AfterReserve(r, Unreachable)]
             /\ UNCHANGED inv
    /\ UNCHANGED <<STOCK, hist, pay>>
    /\ UNCHANGED task1vars

Orchestrator_recv_reserve(k) ==
    /\ ck[k].pc = "wait_reserve" /\ inv[k].st = "done"
    /\ ck' = [ck EXCEPT ![k] = AfterReserve(@, inv[k].resp.code)]
    /\ inv' = [inv EXCEPT ![k] = Idle]
    /\ UNCHANGED <<STOCK, hist, pay>>
    /\ UNCHANGED task1vars

\* Lines 231-232
Orchestrator_call_pay(k) ==
    /\ ck[k].pc = "pay"
    /\ LET r == Called(ck[k], "Charge")
       IN \/ /\ pay' = [pay EXCEPT ![k] = [@ EXCEPT !.st = "sent", !.method = r.method,
                                                      !.amount = IntV(r.amt)]]
             /\ ck' = [ck EXCEPT ![k] = [r EXCEPT !.pc = "wait_pay"]]
          \/ /\ ck' = [ck EXCEPT ![k] = AfterPay(r, Unreachable)]
             /\ UNCHANGED pay
    /\ UNCHANGED <<STOCK, inv, hist>>
    /\ UNCHANGED task1vars

Orchestrator_recv_pay(k) ==
    /\ ck[k].pc = "wait_pay" /\ pay[k].st = "done"
    /\ ck' = [ck EXCEPT ![k] = AfterPay(@, pay[k].resp.code)]
    /\ pay' = [pay EXCEPT ![k] = [@ EXCEPT !.st = "idle", !.resp = NoResp]]
    /\ UNCHANGED <<STOCK, inv, hist>>
    /\ UNCHANGED task1vars

\* Lines 234-235
Orchestrator_call_release(k) ==
    /\ ck[k].pc = "release"
    /\ LET r == Called(ck[k], "Release")
       IN \/ /\ inv' = [inv EXCEPT ![k] = NewRequest("POST", "release", r.item, IntV(r.qty))]
             /\ ck' = [ck EXCEPT ![k] = [r EXCEPT !.pc = "wait_release"]]
          \/ /\ ck' = [ck EXCEPT ![k] = AfterRelease(r, Unreachable)]
             /\ UNCHANGED inv
    /\ UNCHANGED <<STOCK, hist, pay>>
    /\ UNCHANGED task1vars

Orchestrator_recv_release(k) ==
    /\ ck[k].pc = "wait_release" /\ inv[k].st = "done"
    /\ ck' = [ck EXCEPT ![k] = AfterRelease(@, inv[k].resp.code)]
    /\ inv' = [inv EXCEPT ![k] = Idle]
    /\ UNCHANGED <<STOCK, hist, pay>>
    /\ UNCHANGED task1vars

\* Every failure of urlopen is caught and returned as 503 unreachable
Orchestrator_call_caught(k) ==
    /\ ck[k].pc \in {"wait_get", "wait_reserve", "wait_pay", "wait_release"}
    /\ ck' = [ck EXCEPT ![k] =
                CASE @.pc = "wait_get" -> AfterGet(@, Unreachable, 0)
                  [] @.pc = "wait_reserve" -> AfterReserve(@, Unreachable)
                  [] @.pc = "wait_pay" -> AfterPay(@, Unreachable)
                  [] OTHER -> AfterRelease(@, Unreachable)]
    /\ UNCHANGED <<STOCK, inv, hist, pay>>
    /\ UNCHANGED task1vars

\* urlopen raises something that is neither HTTPError nor URLError while the
\* response is awaited (the 5 s timeout expires on the read, or the connection is
\* closed without a response): _http_get / _http_post do not catch it, the
\* handler ends without a response. The collaborator goes on with the request.
Orchestrator_call_raises(k) ==
    /\ ck[k].pc \in {"wait_get", "wait_reserve", "wait_pay", "wait_release"}
    /\ ck' = [ck EXCEPT ![k] = Raised(@)]
    /\ UNCHANGED <<STOCK, inv, hist, pay>>
    /\ UNCHANGED task1vars

----------------------------------------------------------------------------
(* The cart repository (src/D780-Task1.py): Cart and CartRepository *)

CartIds == {"a", "b"}

\* The (item, quantity) pairs passed to Cart.add_item
CartEntries == {<<"widget", 1>>, <<"gadget", 2>>}

\* The items of a Cart the caller has built by Cart(cart_id) and filled by
\* add_item, out of the store
CartItemLists == UNION {[1..n -> CartEntries] : n \in 0..MaxCartItems}

\* A Cart as a method returns it (its id and its items at the return), and None
CartV(id, items) == [none |-> FALSE, id |-> id, items |-> items]
None == [none |-> TRUE, id |-> "", items |-> <<>>]

\* CartRepository.__init__: self._store = {}
EmptyStore == [c \in {} |-> <<>>]

\* self._store.get(cart_id)
StoreGet(S, cart_id) == IF cart_id \in DOMAIN S THEN CartV(cart_id, S[cart_id]) ELSE None

\* self._store[cart.id] = cart
StorePut(S, cart_id, items) ==
    [c \in (DOMAIN S) \cup {cart_id} |-> IF c = cart_id THEN items ELSE S[c]]

\* The source cart is left in the store
StorePopNothing(S, cart_id) == S

\* self._store.pop(source_id, None)
StorePop(S, cart_id) == [c \in (DOMAIN S) \ {cart_id} |-> S[c]]

\* The record of a call: the method, its arguments, the store before it and the
\* value it returned
CartCalled(op, source_id, target_id, ret) ==
    [op |-> op, source |-> source_id, target |-> target_id, pre |-> _store, ret |-> ret]

NoCartCall == [op |-> "none", source |-> "", target |-> "", pre |-> EmptyStore, ret |-> None]

\* CartRepository.create(cart_id): a new, empty cart is stored under the id
CartRepository_create(cart_id) ==
    /\ _store' = StorePut(_store, cart_id, <<>>)
    /\ cartCall' = CartCalled("create", "", cart_id, CartV(cart_id, <<>>))
    /\ UNCHANGED <<_stock, stockCall>>
    /\ UNCHANGED task2vars

\* CartRepository.get(cart_id)
CartRepository_get(cart_id) ==
    /\ cartCall' = CartCalled("get", "", cart_id, StoreGet(_store, cart_id))
    /\ UNCHANGED <<_store, _stock, stockCall>>
    /\ UNCHANGED task2vars

\* CartRepository.save(cart), for a Cart the caller holds out of the store (one it
\* has built, or one that a create, a save or a merge has replaced or removed)
\* with at most MaxCartItems items: the cart is stored under its id
CartRepository_save(cart_id, items) ==
    /\ _store' = StorePut(_store, cart_id, items)
    /\ cartCall' = CartCalled("save", "", cart_id, CartV(cart_id, items))
    /\ UNCHANGED <<_stock, stockCall>>
    /\ UNCHANGED task2vars

\* Cart.add_item(item, quantity) on the cart that get(cart_id) returns
Cart_add_item(cart_id, entry) ==
    /\ cart_id \in DOMAIN _store
    /\ Len(_store[cart_id]) < MaxCartItems
    /\ _store' = [_store EXCEPT ![cart_id] = Append(@, entry)]
    /\ cartCall' = CartCalled("add_item", "", cart_id, None)
    /\ UNCHANGED <<_stock, stockCall>>
    /\ UNCHANGED task2vars

\* CartRepository.merge(source_id, target_id). When source_id = target_id, source
\* and target are the same Cart: extend appends the list to itself, and pop
\* removes that cart.
CartRepository_merge(source_id, target_id) ==
    /\ LET source == StoreGet(_store, source_id)
           target == StoreGet(_store, target_id)
       IN IF source.none \/ target.none
          THEN /\ cartCall' = CartCalled("merge", source_id, target_id, None)
               /\ UNCHANGED _store
          ELSE LET items == target.items \o source.items
               IN /\ Len(items) <= MaxMergedItems
                  /\ _store' = StorePop(StorePut(_store, target_id, items), source_id)
                  /\ cartCall' = CartCalled("merge", source_id, target_id,
                                            CartV(target_id, items))
    /\ UNCHANGED <<_stock, stockCall>>
    /\ UNCHANGED task2vars

----------------------------------------------------------------------------
(* The inventory facade (src/D780-Task1.py): InventoryRepository and InventoryService *)

\* The quantities passed to add_stock and remove_stock
Quantities == -1..MaxQuantity

\* InventoryRepository.__init__: self._stock = {}
EmptyRepository == [i \in {} |-> 0]

\* InventoryRepository.get_quantity(item)
get_quantity(S, item) == IF item \in DOMAIN S THEN S[item] ELSE 0

\* InventoryRepository.set_quantity(item, quantity)
set_quantity(S, item, quantity) ==
    [j \in (DOMAIN S) \cup {item} |-> IF j = item THEN quantity ELSE S[j]]

\* The record of a call: the method, its arguments and the repository before it;
\* neg: some call so far was given a negative quantity
StockCalled(op, item, quantity) ==
    [op |-> op, item |-> item, quantity |-> quantity, pre |-> _stock,
     neg |-> stockCall.neg \/ quantity < 0]

NoStockCall == [op |-> "none", item |-> "", quantity |-> 0, pre |-> EmptyRepository,
                neg |-> FALSE]

\* InventoryService.add_stock(item, quantity)
InventoryService_add_stock(item, quantity) ==
    /\ LET current == get_quantity(_stock, item)
       IN /\ current + quantity \in -MaxLevel..MaxLevel
          /\ _stock' = set_quantity(_stock, item, current + quantity)
    /\ stockCall' = StockCalled("add_stock", item, quantity)
    /\ UNCHANGED <<_store, cartCall>>
    /\ UNCHANGED task2vars

\* A slip in the test: one unit more than the stock may be removed
RemoveAllowedOffByOne(current, quantity) == current >= quantity - 1

\* remove_stock's test (line 147)
RemoveAllowed(current, quantity) == current >= quantity

\* InventoryService.remove_stock(item, quantity)
InventoryService_remove_stock(item, quantity) ==
    /\ LET current == get_quantity(_stock, item)
       IN IF RemoveAllowed(current, quantity)
          THEN /\ current - quantity \in -MaxLevel..MaxLevel
               /\ _stock' = set_quantity(_stock, item, current - quantity)
          ELSE UNCHANGED _stock
    /\ stockCall' = StockCalled("remove_stock", item, quantity)
    /\ UNCHANGED <<_store, cartCall>>
    /\ UNCHANGED task2vars

----------------------------------------------------------------------------
(* Initial states and specifications *)

\* Fresh repositories
Task1Init ==
    /\ _store = EmptyStore
    /\ cartCall = NoCartCall
    /\ _stock = EmptyRepository
    /\ stockCall = NoStockCall

\* Per item, since the last PUT (or the start): base, the stock it set; granted,
\* the quantities of the reserves answered 200; released, the quantities the
\* releases have added; clean, whether that PUT wrote while no reserve or release
\* of the item was in flight. n counts the direct requests; last is the last
\* response sent to a direct client.
InitHist == [base |-> [i \in Items |-> 0],
             granted |-> [i \in Items |-> 0],
             released |-> [i \in Items |-> 0],
             clean |-> [i \in Items |-> TRUE],
             n |-> 0, last |-> NoResp]

InitInv ==
    /\ STOCK = EmptyStock
    /\ inv = [c \in Callers |-> Idle]
    /\ hist = InitHist
    /\ pay = [k \in Checkouts |-> PayIdle]
    /\ ck = [k \in Checkouts |-> CkIdle]
    /\ Task1Init

\* The inventory service's threads serving the GET and POST requests of caller c
InventoryStep(c) ==
    \/ Inventory_do_GET(c)
    \/ Inventory_do_POST_read(c)
    \/ Inventory_do_POST_write(c)
    \/ Inventory_do_POST_reply(c)

\* The inventory service alone, called by clients of its own
NextInv ==
    \/ \E d \in Directs : DirectRequest(d)
    \/ \E d \in Directs : Inventory_do_PUT(d)
    \/ \E d \in Directs : InventoryStep(d)

SpecInv == InitInv /\ [][NextInv]_vars

\* The stock that PUTs have set before the checkouts arrive: no entry at all, or
\* every item at the same level
StockStates == {EmptyStock} \cup {[i \in Items |-> n] : n \in 0..MaxStock}

Init ==
    /\ STOCK \in StockStates
    /\ inv = [c \in Callers |-> Idle]
    /\ hist = [InitHist EXCEPT !.base = [i \in Items |-> StockGet(STOCK, i)]]
    /\ pay = [k \in Checkouts |-> PayIdle]
    /\ ck = [k \in Checkouts |-> CkIdle]
    /\ Task1Init

OrchestratorStep(k) ==
    \/ Orchestrator_validate(k)
    \/ Orchestrator_call_get(k)
    \/ Orchestrator_recv_get(k)
    \/ Orchestrator_call_reserve(k)
    \/ Orchestrator_recv_reserve(k)
    \/ Orchestrator_call_pay(k)
    \/ Orchestrator_recv_pay(k)
    \/ Orchestrator_call_release(k)
    \/ Orchestrator_recv_release(k)
    \/ Orchestrator_call_raises(k)

Next ==
    \/ \E k \in Checkouts : OrchestratorStep(k)
    \/ \E k \in Checkouts : InventoryStep(k)
    \/ \E k \in Checkouts : Payment_do_POST(k)

Spec == Init /\ [][Next]_vars

\* One thread calling the cart repository, the services idle
NextCart ==
    \/ \E c \in CartIds : CartRepository_create(c)
    \/ \E c \in CartIds : CartRepository_get(c)
    \/ \E c \in CartIds, items \in CartItemLists : CartRepository_save(c, items)
    \/ \E c \in CartIds, e \in CartEntries : Cart_add_item(c, e)
    \/ \E s \in CartIds, t \in CartIds : CartRepository_merge(s, t)

SpecCart == InitInv /\ [][NextCart]_vars

\* One thread calling the InventoryService, the services idle
NextService ==
    \/ \E i \in Items, q \in Quantities : InventoryService_add_stock(i, q)
    \/ \E i \in Items, q \in Quantities : InventoryService_remove_stock(i, q)

SpecService == InitInv /\ [][NextService]_vars

----------------------------------------------------------------------------
(* Properties of the inventory service, under SpecInv *)

\* C1: concurrent reserves of an item never jointly overdraw it. Since the last
\* PUT of the item (written while no reserve or release of it was in flight), and
\* as long as nothing was released, the quantities of the reserves answered 200
\* sum to at most the stock that PUT set.
C1_NoJointOverdraw ==
    \A i \in Items :
        (hist.clean[i] /\ hist.released[i] = 0) => hist.granted[i] <= hist.base[i]

\* C2: no update is lost. Since the last PUT of the item (written while no reserve
\* or release of it was in flight), once no reserve or release of the item is in
\* flight, its stock is what that PUT set, less the reserves granted, plus the
\* releases.
C2_NoLostUpdate ==
    \A i \in Items :
        (hist.clean[i] /\ ~InFlight(i)) =>
            StockGet(STOCK, i) = hist.base[i] - hist.granted[i] + hist.released[i]

\* C3: the stock stored for every item is an integer >= 0 in every reachable state.
C3_StockNonNegative == \A i \in DOMAIN STOCK : STOCK[i] \in Nat

\* Two reserves have raced and were granted more than the stock the item held.
C3_Witness ==
    \E i \in DOMAIN STOCK :
        /\ hist.clean[i] /\ hist.released[i] = 0
        /\ hist.granted[i] > hist.base[i]

----------------------------------------------------------------------------
(* Properties of the checkout saga, under Spec *)

Ended(k) == ck[k].pc \in {"done", "raised"}

Issued(k, name) == \E n \in 1..Len(ck[k].calls) : ck[k].calls[n] = name

SagaOrder == <<"GetStock", "Reserve", "Charge", "Release">>

\* C4: when a checkout has ended, by a response or by an exception, and the
\* payment service has performed its charge, no release was issued for its
\* reservation.
C4_ChargedKeepsReservation ==
    \A k \in Checkouts : (Ended(k) /\ pay[k].charged) => ~Issued(k, "Release")

\* The payment service charged, the response was lost (the read timed out) and
\* the checkout ended.
C4_Witness ==
    \E k \in Checkouts :
        /\ ck[k].pc = "raised" /\ pay[k].charged
        /\ ck[k].calls = <<"GetStock", "Reserve", "Charge">>

\* C5: the calls of one checkout are a prefix of GetStock, Reserve, Charge,
\* Release, each issued only after the previous one returned: Reserve after the
\* check returned 200 with stock >= quantity, Charge after Reserve returned 200,
\* Release after Reserve returned 200 and Charge did not.
C5_CallOrder ==
    \A k \in Checkouts :
        LET r == ck[k]
            n == Len(r.calls)
        IN /\ n <= 4 /\ r.calls = SubSeq(SagaOrder, 1, n)
           /\ Len(r.rets) <= n /\ Len(r.rets) >= n - 1
           /\ (inv[k].st = "sent" => Len(r.rets) = n - 1 \/ r.pc = "raised")
           /\ (n >= 2 => r.rets[1] = 200 /\ r.seen >= r.qty)
           /\ (n >= 3 => r.rets[2] = 200)
           /\ (n >= 4 => r.rets[2] = 200 /\ r.rets[3] # 200)

\* A checkout went through all four calls and answered.
C5_Witness ==
    \E k \in Checkouts : ck[k].pc = "done" /\ ck[k].calls = SagaOrder /\ Len(ck[k].rets) = 4

\* The payment call of checkout k was issued and did not succeed: it returned a
\* code other than 200, or it raised.
PaymentCallFailed(k) ==
    /\ Issued(k, "Charge")
    /\ \/ Len(ck[k].rets) >= 3 /\ ck[k].rets[3] # 200
       \/ Len(ck[k].rets) = 2 /\ ck[k].pc = "raised"

\* The inventory service answered every call checkout k made to it.
InventoryAnswered(k) ==
    /\ Len(ck[k].rets) >= 2 /\ ck[k].rets[1] = 200 /\ ck[k].rets[2] = 200
    /\ Issued(k, "Release") => Len(ck[k].rets) = 4 /\ ck[k].rets[4] = 200

\* C6: a checkout that ran alone, passed the stock check and reserved, and whose
\* payment call failed while the inventory service answered, has ended with
\* payment_failed (402) and the item's stock back at its value before the checkout.
C6_PaymentFailureRestoresStock ==
    \A k \in Checkouts :
        (Ended(k) /\ ~ck[k].interf /\ PaymentCallFailed(k) /\ InventoryAnswered(k)) =>
            /\ ck[k].out = Resp(402, "payment_failed", 0)
            /\ StockGet(ck[k].after, ck[k].item) = StockGet(ck[k].before, ck[k].item)

\* C7: a checkout that ran alone and whose payment call returned 200 has answered
\* 200 with the confirmation, issued no release, and left the item's stock lower
\* than before by exactly its quantity.
C7_SuccessDecrementsStock ==
    \A k \in Checkouts :
        (ck[k].pc = "done" /\ ~ck[k].interf /\ Len(ck[k].rets) >= 3 /\ ck[k].rets[3] = 200) =>
            /\ ck[k].out = Resp(200, Processed(ck[k].method), _amount_str(ck[k].amount))
            /\ ck[k].calls = <<"GetStock", "Reserve", "Charge">>
            /\ StockGet(ck[k].after, ck[k].item) = StockGet(ck[k].before, ck[k].item) - ck[k].qty
            /\ StockGet(ck[k].before, ck[k].item) >= ck[k].qty

\* A checkout of quantity 2 ran alone on a stock of 2 and succeeded.
C7_Witness ==
    \E k \in Checkouts :
        /\ ck[k].pc = "done" /\ ~ck[k].interf /\ ck[k].out.code = 200
        /\ ck[k].qty = 2 /\ StockGet(ck[k].before, ck[k].item) = 2
        /\ StockGet(ck[k].after, ck[k].item) = 0

\* C8: a checkout whose quantity exceeds the stock the check read has answered 409
\* insufficient_stock with available = that stock, has issued no call but the
\* check, and (no other request writing meanwhile) has left STOCK as it was.
C8_InsufficientStock ==
    \A k \in Checkouts :
        (ck[k].pc = "done" /\ Len(ck[k].rets) >= 1 /\ ck[k].rets[1] = 200
            /\ ck[k].seen < ck[k].qty) =>
            /\ ck[k].out = Resp(409, "insufficient_stock", ck[k].seen)
            /\ ck[k].calls = <<"GetStock">>
            /\ pay[k] = PayIdle /\ inv[k] = Idle
            /\ (~ck[k].interf => ck[k].after = ck[k].before)

\* A checkout of quantity 2 read a stock of 1 and answered.
C8_Witness ==
    \E k \in Checkouts :
        /\ ck[k].pc = "done" /\ ck[k].rets = <<200>> /\ ~ck[k].interf
        /\ ck[k].seen = 1 /\ ck[k].qty = 2

\* The body of checkout k fails the validation: empty or missing item,
\* non-positive quantity, non-numeric or non-positive amount.
InvalidInput(k) ==
    \/ Falsy(ck[k].rawitem)
    \/ py_int_quantity(ck[k].q).ok /\ py_int_quantity(ck[k].q).v <= 0
    \/ ~py_float(ck[k].amount).ok
    \/ py_float(ck[k].amount).ok /\ py_float(ck[k].amount).v <= 0

\* C9: a checkout with an empty or missing item, a non-positive quantity, or a
\* non-numeric or non-positive amount has answered 400, has made no collaborator
\* call, has charged nothing and has left STOCK as it was.
C9_InvalidRequestRejected ==
    \A k \in Checkouts :
        (Ended(k) /\ InvalidInput(k)) =>
            /\ ck[k].out.code = 400
            /\ ck[k].calls = <<>> /\ ~pay[k].charged
            /\ (~ck[k].interf => ck[k].after = ck[k].before)

\* C10: a checkout whose quantity does not parse as an integer has answered 400
\* and has made no collaborator call.
C10_UnparsableQuantityRejected ==
    \A k \in Checkouts :
        (Ended(k) /\ ~py_int_quantity(ck[k].q).ok) =>
            ck[k].out.code = 400 /\ ck[k].calls = <<>>

\* C11: every checkout that has called a collaborator and has ended has sent a
\* response: a call that gets no answer within the 5 seconds has returned 503 and
\* the handler has gone on to its failure branch.
C11_EveryCheckoutAnswers ==
    \A k \in Checkouts : (Ended(k) /\ ck[k].calls # <<>>) => ck[k].out # NoResp

\* C12: a checkout that has answered inventory_reserve_failed has issued no
\* charge (nor a release), the payment service has seen nothing of it, and its
\* reserve has subtracted nothing from STOCK, then and ever after.
C12_ReserveFailedTookNothing ==
    \A k \in Checkouts :
        ck[k].out.tag = "inventory_reserve_failed" =>
            /\ ck[k].out = Resp(409, "inventory_reserve_failed", 0)
            /\ ck[k].calls = <<"GetStock", "Reserve">>
            /\ pay[k] = PayIdle
            /\ ck[k].took = 0
            /\ inv[k] = Idle

\* The check read enough stock, another checkout's reserve wrote meanwhile, and
\* this checkout's reserve was rejected with 409.
C12_Witness ==
    \E k \in Checkouts :
        /\ ck[k].out.tag = "inventory_reserve_failed"
        /\ ck[k].rets = <<200, 409>> /\ ck[k].interf
        /\ ck[k].seen >= ck[k].qty

\* C13: a checkout whose charge returned a failure after its reserve succeeded,
\* and which has ended, has issued the release exactly once, after the charge,
\* and has answered 402 payment_failed, whatever became of the release.
C13_ReleaseOnceThen402 ==
    \A k \in Checkouts :
        (Ended(k) /\ Len(ck[k].rets) >= 3 /\ ck[k].rets[3] # 200) =>
            /\ ck[k].calls = SagaOrder
            /\ ck[k].out = Resp(402, "payment_failed", 0)

\* The check call of checkout k did not get a 200 from the inventory service: it
\* returned another code (the connection failed), or it got no answer and raised.
CheckCallFailed(k) ==
    /\ Issued(k, "GetStock")
    /\ \/ Len(ck[k].rets) >= 1 /\ ck[k].rets[1] # 200
       \/ ck[k].rets = <<>> /\ ck[k].pc = "raised"

\* C14: a checkout whose check call found the inventory service unreachable (the
\* connection failed, or no answer came within the bound) has answered 503
\* inventory_unreachable, has issued no reserve, charge or release, and has
\* changed nothing in the inventory or the payment service.
C14_CheckUnreachable ==
    \A k \in Checkouts :
        CheckCallFailed(k) =>
            /\ ck[k].pc = "done"
            /\ ck[k].out = Resp(503, "inventory_unreachable", 0)
            /\ ck[k].calls = <<"GetStock">>
            /\ pay[k] = PayIdle /\ ck[k].took = 0
            /\ (~ck[k].interf => ck[k].after = ck[k].before)

\* The reserve call of checkout k returned 200.
ReserveSucceeded(k) == Len(ck[k].rets) >= 2 /\ ck[k].rets[2] = 200

\* C15: of two checkouts of the same item whose quantities the initial stock
\* covers one at a time but not together (and nothing having been released), at
\* most one has its reserve answered 200.
C15_NotBothReserve ==
    \A k1, k2 \in Checkouts :
        (/\ k1 # k2 /\ ck[k1].item = ck[k2].item /\ ck[k1].item \in Items
         /\ hist.released[ck[k1].item] = 0
         /\ ck[k1].qty <= hist.base[ck[k1].item] /\ ck[k2].qty <= hist.base[ck[k1].item]
         /\ ck[k1].qty + ck[k2].qty > hist.base[ck[k1].item])
            => ~(ReserveSucceeded(k1) /\ ReserveSucceeded(k2))

\* C18: the payment service answers 200 to every request the orchestrator sends
\* it, whatever the method. A checkout that has issued a release or answered
\* payment_failed had its /pay call fail in transport: the call returned 503 and
\* the payment service never received the request.
C18_PaymentFailsOnlyByTransport ==
    \A k \in Checkouts :
        /\ pay[k].st = "done" =>
               /\ pay[k].charged
               /\ pay[k].resp = Resp(200, Processed(ck[k].method), _amount_str(ck[k].amount))
        /\ (Issued(k, "Release") \/ ck[k].out.tag = "payment_failed") =>
               /\ Len(ck[k].rets) >= 3 /\ ck[k].rets[3] = Unreachable
               /\ pay[k] = PayIdle

\* One checkout, sent with no method, was charged and answered 200; another one
\* could not reach the payment service, released and answered 402.
C18_Witness ==
    \E k1, k2 \in Checkouts :
        /\ ck[k1].out = Resp(200, Processed(Missing), _amount_str(ck[k1].amount))
        /\ ck[k1].method = Missing /\ pay[k1].charged
        /\ ck[k2].out = Resp(402, "payment_failed", 0)
        /\ ck[k2].rets = <<200, 200, 503, 200>>

----------------------------------------------------------------------------
(* Behaviour of single inventory requests, under SpecInv *)

\* C16: every step of the handler of a reserve with quantity > 0. It reads the
\* item's stock (0 for an unknown item). When the quantity exceeds the stock read,
\* it answers 409 insufficient_stock with available = that stock and leaves STOCK
\* as it is, entries included. Otherwise it stores stock - quantity for the item,
\* and then answers 200 with remaining = the stock stored for the item.
C16_ReserveBehaviour ==
    [][\A d \in Directs :
        LET r == inv[d]
            p == py_int_quantity(r.q)
        IN (r.verb = "POST" /\ r.action = "reserve" /\ inv'[d] # r) =>
            /\ (r.st = "sent" /\ p.ok /\ p.v > 0) =>
                   /\ inv'[d] = [r EXCEPT !.st = "read", !.qty = p.v,
                                          !.current = StockGet(STOCK, r.item)]
                   /\ STOCK' = STOCK
            /\ (r.st = "read" /\ r.qty > r.current) =>
                   /\ hist'.last = Resp(409, "insufficient_stock", r.current)
                   /\ STOCK' = STOCK
                   /\ inv'[d] = Idle
            /\ (r.st = "read" /\ r.qty <= r.current) =>
                   /\ STOCK' = StockSet(STOCK, r.item, r.current - r.qty)
                   /\ STOCK'[r.item] >= 0
                   /\ inv'[d] = [r EXCEPT !.st = "wrote"]
            /\ r.st = "wrote" =>
                   /\ hist'.last = Resp(200, "reserved", STOCK[r.item])
                   /\ STOCK' = STOCK
                   /\ inv'[d] = Idle
      ]_vars

\* A reserve of 2 was answered 409 with available 1, the stock of the one item
\* that has an entry.
C16_Witness ==
    /\ hist.last = Resp(409, "insufficient_stock", 1)
    /\ \E i \in Items : DOMAIN STOCK = {i} /\ STOCK[i] = 1 /\ hist.base[i] = 1

\* C17: the step of the handler of a PUT whose quantity is an integer. A quantity
\* >= 0 is stored as the item's stock, whatever the stock was, the other items
\* keeping theirs, and the answer is 200. A negative quantity is answered 400 and
\* STOCK stays as it is.
C17_PutBehaviour ==
    [][\A d \in Directs :
        LET r == inv[d]
            p == py_int_quantity(r.q)
        IN (r.st = "sent" /\ r.verb = "PUT" /\ inv'[d] # r /\ p.ok) =>
            /\ p.v >= 0 =>
                   /\ r.item \in DOMAIN STOCK' /\ STOCK'[r.item] = p.v
                   /\ \A j \in Items \ {r.item} : StockGet(STOCK', j) = StockGet(STOCK, j)
                   /\ DOMAIN STOCK' = DOMAIN STOCK \cup {r.item}
                   /\ hist'.last = Resp(200, "stock updated", 0)
            /\ p.v < 0 =>
                   /\ STOCK' = STOCK
                   /\ hist'.last = Resp(400, "quantity must be >= 0", 0)
      ]_vars

\* A PUT of a negative quantity was answered 400 while an item held a stock of 2.
C17_Witness ==
    /\ hist.last = Resp(400, "quantity must be >= 0", 0)
    /\ \E i \in DOMAIN STOCK : STOCK[i] = 2

----------------------------------------------------------------------------
(* Properties of the cart repository, under SpecCart *)

\* C19, as claimed: after merge(source_id, target_id) on two carts that exist,
\* equal ids included, the cart returned is the target holding its own items
\* followed by the source's, the source is out of the store unless it is the
\* target, and get(target_id) returns the target with those items. After a merge
\* with a missing cart, the value returned is None and the store is as before.
C19_MergeKeepsTarget ==
    cartCall.op = "merge" =>
        LET s == cartCall.source
            t == cartCall.target
            pre == cartCall.pre
        IN IF s \in DOMAIN pre /\ t \in DOMAIN pre
           THEN /\ cartCall.ret = CartV(t, pre[t] \o pre[s])
                /\ (s # t => s \notin DOMAIN _store)
                /\ StoreGet(_store, t) = cartCall.ret
           ELSE cartCall.ret = None /\ _store = pre

\* C19, amended: the same for two different ids; after merge(id, id) on a cart
\* that exists, the cart returned holds its items twice over and the cart is out
\* of the store, so get(id) returns None. In every case the other carts are as
\* before.
C19_MergeRemovesSource ==
    cartCall.op = "merge" =>
        LET s == cartCall.source
            t == cartCall.target
            pre == cartCall.pre
        IN IF s \in DOMAIN pre /\ t \in DOMAIN pre
           THEN /\ cartCall.ret = CartV(t, pre[t] \o pre[s])
                /\ s \notin DOMAIN _store
                /\ (s # t => StoreGet(_store, t) = cartCall.ret)
                /\ (s = t => StoreGet(_store, t) = None)
                /\ \A c \in CartIds \ {s, t} : StoreGet(_store, c) = StoreGet(pre, c)
           ELSE cartCall.ret = None /\ _store = pre

\* A cart holding (gadget, 2) was merged into another one holding (widget, 1).
C19_Witness ==
    /\ cartCall.op = "merge" /\ cartCall.source # cartCall.target
    /\ cartCall.ret.items = << <<"widget", 1>>, <<"gadget", 2>> >>
    /\ DOMAIN _store = {cartCall.target}

----------------------------------------------------------------------------
(* Properties of the InventoryService, under SpecService *)

\* C20: as long as no call was given a negative quantity, every item's quantity
\* is >= 0; and after remove_stock(item, quantity), the repository is as before
\* when quantity exceeded the item's quantity, and otherwise the item's quantity
\* is lower by exactly quantity and the other items have theirs.
C20_ServiceNonNegative ==
    ~stockCall.neg =>
        /\ \A i \in DOMAIN _stock : _stock[i] >= 0
        /\ stockCall.op = "remove_stock" =>
              LET i == stockCall.item
                  pre == stockCall.pre
              IN IF stockCall.quantity > get_quantity(pre, i)
                 THEN _stock = pre
                 ELSE /\ get_quantity(_stock, i) = get_quantity(pre, i) - stockCall.quantity
                      /\ \A j \in Items \ {i} : get_quantity(_stock, j) = get_quantity(pre, j)

\* remove_stock was asked for 2 of an item that had 1, after calls with
\* quantities >= 0 only.
C20_Witness ==
    /\ ~stockCall.neg /\ stockCall.op = "remove_stock"
    /\ stockCall.quantity = 2 /\ get_quantity(stockCall.pre, stockCall.item) = 1
    /\ _stock = stockCall.pre

====
